---- MODULE Spec2Model ----
(***************************************************************************)
(* Model of the request pipeline of the Anime.js MCP server: the circuit   *)
(* breaker (utils/circuit-breaker.ts), the expiring cache (utils/cache.ts),*)
(* the parameter validation (utils/validation.ts), the request dispatcher  *)
(* (handler.ts) and the tool handlers (tools/).                            *)
(*                                                                         *)
(* JavaScript runs each synchronous stretch of code to completion, so one  *)
(* action is one such stretch: execute() up to its `await operation()`,    *)
(* and the continuation after the awaited promise settles.  Several        *)
(* execute() calls may be suspended at the await at the same time.         *)
(***************************************************************************)
EXTENDS Integers, FiniteSets, Sequences, TLC

\* ---------------------------------------------------------------- bounds
MaxCalls    == 2          \* execute() calls that may overlap
MaxFailures == 7          \* cap on the failure counter
MaxNow      == 340000     \* last instant of the clock (ms)
MaxRequests == 2          \* requests that may overlap in the dispatcher
MaxEntries  == 2          \* cache entries the requests to the tools fill

\* ------------------------------------------------------ program constants
failureThreshold == 5
resetTimeout     == 60000
monitoringPeriod == 10000
defaultTTL       == 300000

NULL      == -1           \* lastFailureTime: number | null
UNDEFINED == -2           \* an optional argument that was not supplied

TimeStep   == resetTimeout \div 3    \* granularity of the clock (ms)
Calls      == 1..MaxCalls
ClockSteps == {TimeStep, resetTimeout, defaultTTL}
OpErrors   == {"Error: op failed", "TypeError: op failed"}
BreakerOpenError == "Error: Circuit breaker is OPEN"
NoError    == "none"

Keys      == {"k1", "k2"}
Values    == {"v1", "v2"}
TTLInputs == {UNDEFINED, 0, TimeStep, 2 * TimeStep}

Missing == "<undefined>"  \* a parameter that was not supplied

Slots == 1..MaxRequests

\* A request: its method; for call_tool the tool's name and the value of the
\* tool's argument; for get_prompt the prompt's name and the value of the
\* prompt's argument (Missing: the `arguments` field is omitted); for
\* read_resource the uri in arg.
Request(method, name, arg) == [method |-> method, name |-> name, arg |-> arg]

NoRequest == Request("none", Missing, Missing)

IdleRequest == [pc |-> "idle", req |-> NoRequest, outcome |-> "none",
                body |-> "none", ran |-> "none", hit |-> FALSE, counted |-> 0,
                logged |-> 0, logMethod |-> Missing]

VARIABLES
  state,            \* CircuitBreaker.state
  failures,         \* CircuitBreaker.failures
  lastFailureTime,  \* CircuitBreaker.lastFailureTime
  now,              \* Date.now()
  calls,            \* the execute() calls: position and what the caller saw
  failedInARow,     \* history: operations that failed since the last success
  cache,            \* Cache.cache: Map<string, CacheItem>
  lastOp,           \* history: the last cache operation and what it returned
  requests          \* the requests in the dispatcher: position and response

breakerVars == <<state, failures, lastFailureTime>>
vars == <<state, failures, lastFailureTime, now, calls, failedInARow, cache, lastOp, requests>>

IdleCall == [pc |-> "idle", invoked |-> 0, outcome |-> "none", error |-> NoError,
             opError |-> NoError, trial |-> FALSE]

absent == "null"         \* what get() returns for no entry, and for an expired one

NoOp == [op |-> "none", key |-> "none", data |-> "none", ttl |-> UNDEFINED,
         at |-> 0, ret |-> "none", prev |-> absent]

Init ==
  /\ state = "CLOSED"
  /\ failures = 0
  /\ lastFailureTime = NULL
  /\ now = 0
  /\ calls = [c \in Calls |-> IdleCall]
  /\ failedInARow = 0
  /\ cache = [k \in {} |-> NoOp]
  /\ lastOp = NoOp
  /\ requests = [r \in Slots |-> IdleRequest]

\* ------------------------------------------------------------------ clock
Tick(d) ==
  /\ now + d <= MaxNow
  /\ now' = now + d
  /\ UNCHANGED <<state, failures, lastFailureTime, calls, failedInARow, cache, lastOp, requests>>

\* -------------------------------------------------------- CircuitBreaker
\* Variant: the cooldown is measured against monitoringPeriod.
shouldAttemptReset_monitoringPeriod ==
  /\ lastFailureTime # NULL
  /\ now - lastFailureTime >= monitoringPeriod

\* Variant: `>` for `>=` in the cooldown test.
shouldAttemptReset_strict ==
  /\ lastFailureTime # NULL
  /\ now - lastFailureTime > resetTimeout

\* shouldAttemptReset(): the cooldown since the last failure has elapsed.
shouldAttemptReset ==
  /\ lastFailureTime # NULL
  /\ now - lastFailureTime >= resetTimeout

\* Variant: a success clears the counter and leaves the state alone.
onSuccess_keepsState ==
  /\ failures' = 0
  /\ UNCHANGED <<state, lastFailureTime>>

\* onSuccess()
onSuccess ==
  /\ failures' = 0
  /\ state' = "CLOSED"
  /\ UNCHANGED lastFailureTime

\* Variant: a failure is counted and its time is not recorded.
onFailure_unstamped ==
  /\ failures' = failures + 1
  /\ state' = IF failures + 1 >= failureThreshold THEN "OPEN" ELSE state
  /\ UNCHANGED lastFailureTime

\* Variant: opens only above the threshold (`>` for `>=`).
onFailure_aboveThreshold ==
  /\ failures' = failures + 1
  /\ lastFailureTime' = now
  /\ state' = IF failures + 1 > failureThreshold THEN "OPEN" ELSE state

\* onFailure()
onFailure ==
  /\ failures' = failures + 1
  /\ lastFailureTime' = now
  /\ state' = IF failures + 1 >= failureThreshold THEN "OPEN" ELSE state

\* execute(), lines 17-23: the gate.  TRUE when the call is let through.
admits == ~(state = "OPEN" /\ ~shouldAttemptReset)

\* Variant: the catch block throws a new error in place of the caught one.
rethrown_wrapped(error) == "Error: operation failed"

\* execute(), line 31: `throw error` hands the operation's own error on.
rethrown(error) == error

\* Variant: a rejected call records its own time as the last failure.
executeEnter_stampsRejected(c) ==
  /\ calls[c].pc = "idle"
  /\ IF admits
       THEN /\ state' = IF state = "OPEN" THEN "HALF_OPEN" ELSE state
            /\ calls' = [calls EXCEPT ![c] =
                           [pc |-> "running", invoked |-> 1, outcome |-> "none",
                            error |-> NoError, opError |-> NoError,
                            trial |-> (state = "OPEN")]]
            /\ UNCHANGED <<failures, lastFailureTime>>
       ELSE /\ calls' = [calls EXCEPT ![c] =
                           [pc |-> "done", invoked |-> 0, outcome |-> "threw",
                            error |-> BreakerOpenError, opError |-> NoError,
                            trial |-> FALSE]]
            /\ lastFailureTime' = now
            /\ UNCHANGED <<state, failures>>
  /\ UNCHANGED <<now, failedInARow, cache, lastOp, requests>>

\* execute() from its entry to `await operation()`: the gate, then the
\* wrapped operation is invoked and the call is suspended on its promise.
executeEnter(c) ==
  /\ calls[c].pc = "idle"
  /\ IF admits
       THEN /\ state' = IF state = "OPEN" THEN "HALF_OPEN" ELSE state
            /\ calls' = [calls EXCEPT ![c] =
                           [pc |-> "running", invoked |-> 1, outcome |-> "none",
                            error |-> NoError, opError |-> NoError,
                            trial |-> (state = "OPEN")]]
            /\ UNCHANGED <<failures, lastFailureTime>>
       ELSE /\ calls' = [calls EXCEPT ![c] =
                           [pc |-> "done", invoked |-> 0, outcome |-> "threw",
                            error |-> BreakerOpenError, opError |-> NoError,
                            trial |-> FALSE]]
            /\ UNCHANGED <<state, failures, lastFailureTime>>
  /\ UNCHANGED <<now, failedInARow, cache, lastOp, requests>>

\* execute(), lines 26-28: the operation's promise fulfilled.
executeReturn(c) ==
  /\ calls[c].pc = "running"
  /\ onSuccess
  /\ calls' = [calls EXCEPT ![c].pc = "done", ![c].outcome = "returned"]
  /\ failedInARow' = 0
  /\ UNCHANGED <<now, cache, lastOp, requests>>

\* execute(), lines 29-32: the operation's promise rejected with `error`.
executeCatch(c, error) ==
  /\ calls[c].pc = "running"
  /\ failures < MaxFailures
  /\ onFailure
  /\ calls' = [calls EXCEPT ![c].pc = "done", ![c].outcome = "threw",
                            ![c].opError = error, ![c].error = rethrown(error)]
  /\ failedInARow' = failedInARow + 1
  /\ UNCHANGED <<now, cache, lastOp, requests>>

\* The caller has taken the settled result; the slot is free for a new call.
callerContinues(c) ==
  /\ calls[c].pc = "done"
  /\ calls' = [calls EXCEPT ![c] = IdleCall]
  /\ UNCHANGED <<state, failures, lastFailureTime, now, failedInARow, cache, lastOp, requests>>

NextBreaker ==
  \/ \E d \in ClockSteps : Tick(d)
  \/ \E c \in Calls : executeEnter(c)
  \/ \E c \in Calls : executeReturn(c)
  \/ \E c \in Calls, error \in OpErrors : executeCatch(c, error)
  \/ \E c \in Calls : callerContinues(c)

SpecBreaker == Init /\ [][NextBreaker]_vars

\* ---- the breaker when time advances, calls keep arriving and operations
\* settle.  An operation fails only while the clock has room left for a
\* whole cooldown after the failure.
operationFails(c, error) ==
  /\ now + resetTimeout <= MaxNow
  /\ executeCatch(c, error)

NextRecovery ==
  \/ \E d \in ClockSteps : Tick(d)
  \/ \E c \in Calls : executeEnter(c)
  \/ \E c \in Calls : executeReturn(c)
  \/ \E c \in Calls, error \in OpErrors : operationFails(c, error)
  \/ \E c \in Calls : callerContinues(c)

\* Time advances, a call arrives whenever a caller is free, a settled call
\* is taken by its caller, and a pending operation that is not going to fail
\* succeeds.
RecoveryFairness ==
  /\ WF_vars(\E d \in ClockSteps : Tick(d))
  /\ WF_vars(\E c \in Calls : executeEnter(c))
  /\ \A c \in Calls : WF_vars(executeReturn(c))
  /\ \A c \in Calls : WF_vars(callerContinues(c))

SpecRecovery == Init /\ [][NextRecovery]_vars /\ RecoveryFairness

\* ------------------------------------------------------------------ Cache
\* Variant: an existing entry keeps its timestamp and ttl, only data changes.
put_merges(m, key, item) ==
  [k \in DOMAIN m \cup {key} |->
     IF k # key THEN m[k]
     ELSE IF key \in DOMAIN m THEN [m[key] EXCEPT !.data = item.data] ELSE item]

\* Map.set(key, item) on the backing map.
put(m, key, item) ==
  [k \in DOMAIN m \cup {key} |-> IF k = key THEN item ELSE m[k]]

\* Variant: the purge empties the whole map.
remove_everything(m, key) == [k \in {} |-> m[k]]

\* Map.delete(key) on the backing map.
remove(m, key) == [k \in DOMAIN m \ {key} |-> m[k]]

\* set(), line 99: `ttl || this.defaultTTL`; undefined and 0 are both falsy.
effectiveTTL(ttl) == IF ttl = UNDEFINED \/ ttl = 0 THEN defaultTTL ELSE ttl

\* set(), lines 96-100: the item built from the arguments.
CacheItem(data, ttl) ==
  [data |-> data, timestamp |-> now, ttl |-> effectiveTTL(ttl)]

\* get(), line 85: the expiry test.
expired(item) == now > item.timestamp + item.ttl

\* What get(key) returns in the current state.
getReturn(key) ==
  IF key \notin DOMAIN cache THEN absent
  ELSE IF expired(cache[key]) THEN absent
  ELSE cache[key].data

\* The data stored under key, expired or not (history for lastOp).
stored(key) == IF key \in DOMAIN cache THEN cache[key].data ELSE absent

\* Variant: size() counts only the entries that have not expired.
size_liveOnly == Cardinality({k \in DOMAIN cache : ~expired(cache[k])})

\* size()
size == Cardinality(DOMAIN cache)

\* Variant: a hit on a live entry restarts the entry's life.
get_refreshes(key) ==
  /\ cache' = IF key \notin DOMAIN cache THEN cache
              ELSE IF expired(cache[key]) THEN remove(cache, key)
              ELSE [cache EXCEPT ![key].timestamp = now]
  /\ lastOp' = [op |-> "get", key |-> key, data |-> "none", ttl |-> UNDEFINED,
                at |-> now, ret |-> getReturn(key), prev |-> stored(key)]
  /\ UNCHANGED <<state, failures, lastFailureTime, now, calls, failedInARow, requests>>

\* get(key): returns the data of a live entry; purges an expired one.
get(key) ==
  /\ cache' = IF key \in DOMAIN cache /\ expired(cache[key])
                THEN remove(cache, key) ELSE cache
  /\ lastOp' = [op |-> "get", key |-> key, data |-> "none", ttl |-> UNDEFINED,
                at |-> now, ret |-> getReturn(key), prev |-> stored(key)]
  /\ UNCHANGED <<state, failures, lastFailureTime, now, calls, failedInARow, requests>>

\* set(key, data, ttl?)
set(key, data, ttl) ==
  /\ cache' = put(cache, key, CacheItem(data, ttl))
  /\ lastOp' = [op |-> "set", key |-> key, data |-> data, ttl |-> ttl,
                at |-> now, ret |-> "undefined", prev |-> stored(key)]
  /\ UNCHANGED <<state, failures, lastFailureTime, now, calls, failedInARow, requests>>

\* clear()
clear ==
  /\ cache' = [k \in {} |-> NoOp]
  /\ lastOp' = [op |-> "clear", key |-> "none", data |-> "none", ttl |-> UNDEFINED,
                at |-> now, ret |-> "undefined", prev |-> absent]
  /\ UNCHANGED <<state, failures, lastFailureTime, now, calls, failedInARow, requests>>

\* Variant: delete reports true only for an entry that has not expired.
delete_reportsLiveOnly(key) ==
  /\ cache' = remove(cache, key)
  /\ lastOp' = [op |-> "delete", key |-> key, data |-> "none", ttl |-> UNDEFINED,
                at |-> now,
                ret |-> IF getReturn(key) # absent THEN "true" ELSE "false",
                prev |-> stored(key)]
  /\ UNCHANGED <<state, failures, lastFailureTime, now, calls, failedInARow, requests>>

\* delete(key): true when an entry was stored under key.
delete(key) ==
  /\ cache' = remove(cache, key)
  /\ lastOp' = [op |-> "delete", key |-> key, data |-> "none", ttl |-> UNDEFINED,
                at |-> now,
                ret |-> IF key \in DOMAIN cache THEN "true" ELSE "false",
                prev |-> stored(key)]
  /\ UNCHANGED <<state, failures, lastFailureTime, now, calls, failedInARow, requests>>

NextCache ==
  \/ \E d \in ClockSteps : Tick(d)
  \/ \E key \in Keys : get(key)
  \/ \E key \in Keys, data \in Values, ttl \in TTLInputs : set(key, data, ttl)
  \/ clear
  \/ \E key \in Keys : delete(key)

SpecCache == Init /\ [][NextCache]_vars

\* ================================================================ server
\* The request dispatcher (handler.ts), the parameter validation
\* (utils/validation.ts) and the five tool handlers (tools/).

\* ---------------------------------------------------------------- strings
upperCaseLetters == "ABCDEFGHIJKLMNOPQRSTUVWXYZ"
lowerCaseLetters == "abcdefghijklmnopqrstuvwxyz"

charAt(s, i) == SubSeq(s, i, i)

\* One character of toLowerCase().
lowerChar(ch) ==
  IF \E i \in 1..26 : charAt(upperCaseLetters, i) = ch
    THEN charAt(lowerCaseLetters, CHOOSE i \in 1..26 : charAt(upperCaseLetters, i) = ch)
    ELSE ch

\* Variant: the string is used as typed.
toLowerCase_asTyped(s) == s

\* String.prototype.toLowerCase()
RECURSIVE toLowerCase(_)
toLowerCase(s) ==
  IF Len(s) = 0 THEN s
  ELSE IF Len(s) = 1 THEN lowerChar(s)
  ELSE toLowerCase(SubSeq(s, 1, Len(s) \div 2))
         \o toLowerCase(SubSeq(s, Len(s) \div 2 + 1, Len(s)))

\* replace(/[()]/g, '')
RECURSIVE stripParens(_)
stripParens(s) ==
  IF Len(s) = 0 THEN s
  ELSE IF Len(s) = 1 THEN (IF s \in {"(", ")"} THEN "" ELSE s)
  ELSE stripParens(SubSeq(s, 1, Len(s) \div 2))
         \o stripParens(SubSeq(s, Len(s) \div 2 + 1, Len(s)))

\* replace(/[-_]/g, '-')
RECURSIVE dashes(_)
dashes(s) ==
  IF Len(s) = 0 THEN s
  ELSE IF Len(s) = 1 THEN (IF s \in {"-", "_"} THEN "-" ELSE s)
  ELSE dashes(SubSeq(s, 1, Len(s) \div 2))
         \o dashes(SubSeq(s, Len(s) \div 2 + 1, Len(s)))

\* String.prototype.includes(q)
includes(s, q) ==
  \E i \in 1..(Len(s) - Len(q) + 1) : SubSeq(s, i, i + Len(q) - 1) = q

\* String.prototype.startsWith(p)
startsWith(s, p) == Len(s) >= Len(p) /\ SubSeq(s, 1, Len(p)) = p

\* category.charAt(0).toUpperCase() + category.slice(1)
capitalize(s) ==
  IF Len(s) = 0 THEN s
  ELSE (IF \E i \in 1..26 : charAt(lowerCaseLetters, i) = charAt(s, 1)
          THEN charAt(upperCaseLetters,
                      CHOOSE i \in 1..26 : charAt(lowerCaseLetters, i) = charAt(s, 1))
          ELSE charAt(s, 1))
       \o SubSeq(s, 2, Len(s))

\* Array.prototype.join(sep) over a sequence of strings.
RECURSIVE join(_, _)
join(seq, sep) ==
  IF Len(seq) = 0 THEN ""
  ELSE IF Len(seq) = 1 THEN seq[1]
  ELSE seq[1] \o sep \o join(Tail(seq), sep)

\* A string of 2000 characters.
x10    == "xxxxxxxxxx"
x100   == x10 \o x10 \o x10 \o x10 \o x10 \o x10 \o x10 \o x10 \o x10 \o x10
x1000  == x100 \o x100 \o x100 \o x100 \o x100 \o x100 \o x100 \o x100 \o x100 \o x100
LongString == x1000 \o x1000

\* Property names every object literal inherits from Object.prototype and
\* that a lower-cased key can spell.
ObjectPrototypeKeys == {"constructor", "__proto__"}

\* obj[key] is truthy: an own property, or an inherited one.
hasProperty(ownKeys, key) == key \in ownKeys \cup ObjectPrototypeKeys

\* ------------------------------------------------------------- validation
\* stringSchema = z.string().min(1).max(1000)
minLength == 1
maxLength == 1000
stringSchema(v) == v # Missing /\ Len(v) >= minLength /\ Len(v) <= maxLength

\* The message of the zod issue for a value that fails stringSchema.
issueMessage(v) ==
  IF v = Missing THEN "Required"
  ELSE IF Len(v) < minLength THEN "String must contain at least 1 character(s)"
  ELSE "String must contain at most 1000 character(s)"

\* methodSchemas: the field each method's schema requires to be a
\* stringSchema; "none" for a schema with no required field and for a
\* method with no schema.
requiredField(method) ==
  CASE method = "get_anime_component"   -> "componentName"
    [] method = "get_anime_example"     -> "exampleType"
    [] method = "search_anime_examples" -> "query"
    [] method = "get_anime_docs"        -> "topic"
    [] method = "read_resource"         -> "uri"
    [] method = "get_prompt"            -> "name"
    [] method = "call_tool"             -> "name"
    [] OTHER                            -> "none"

\* validateAndSanitizeParams(method, params): NoError when the params parse,
\* else the error it throws.  value is params[requiredField(method)].
validateAndSanitizeParams(method, value) ==
  IF requiredField(method) = "none" \/ stringSchema(value) THEN NoError
  ELSE "Error: Validation failed for " \o method \o ": "
         \o requiredField(method) \o ": " \o issueMessage(value)

\* --------------------------------------------------------- knowledge base
\* getComponentInfo(): the `components` object, in the order of its keys.
componentKeys == <<"anime", "timeline", "stagger", "path", "random">>

components ==
  [anime    |-> [name |-> "anime()",          type |-> "Main Animation Function"],
   timeline |-> [name |-> "anime.timeline()", type |-> "Timeline Function"],
   stagger  |-> [name |-> "anime.stagger()",  type |-> "Stagger Function"],
   path     |-> [name |-> "anime.path()",     type |-> "SVG Path Function"],
   random   |-> [name |-> "anime.random()",   type |-> "Utility Function"]]

\* getAllComponents(): what list_anime_components lists.
getAllComponents ==
  <<[name |-> "anime()",          category |-> "core"],
    [name |-> "anime.timeline()", category |-> "timeline"],
    [name |-> "anime.stagger()",  category |-> "utilities"],
    [name |-> "anime.path()",     category |-> "svg"],
    [name |-> "anime.random()",   category |-> "utilities"],
    [name |-> "anime.set()",      category |-> "utilities"],
    [name |-> "anime.get()",      category |-> "utilities"],
    [name |-> "anime.remove()",   category |-> "utilities"]>>

categories == <<"core", "timeline", "utilities", "svg">>

\* getExample(): the `examples` object of get_anime_example.
exampleKeys ==
  <<"basic-transform", "timeline-sequence", "stagger-grid", "svg-path",
    "morphing", "keyframes", "text-animation", "elastic-bounce">>

exampleTitles ==
  <<"Basic Transform Animation", "Timeline Sequence Animation",
    "Staggered Grid Animation", "SVG Path Animation", "CSS Property Morphing",
    "Keyframes Animation", "Text Animation", "Elastic and Bounce Effects">>

\* getDocumentation(): the `docs` object of get_anime_docs.
docKeys ==
  <<"getting-started", "animation-controls", "easing", "performance",
    "timeline", "stagger">>

docTitles ==
  <<"Getting Started with Anime.js", "Animation Controls", "Easing Functions",
    "Performance Optimization", "Timeline and Sequencing", "Stagger Effects">>

\* searchExamples(), lines 30-197: the examples the search runs over.
examples == <<
  [id |-> "basic-transform", title |-> "Basic Transform Animation",
   description |-> "Simple transform animation with translate, rotate, and scale",
   category |-> "Basic",
   tags |-> <<"transform", "translate", "rotate", "scale", "basic", "simple">>,
   code |-> "anime({\n  targets: '.element',\n  translateX: 250,\n  rotate: '1turn',\n  scale: 1.5,\n  duration: 2000\n});"],
  [id |-> "timeline-sequence", title |-> "Timeline Sequence Animation",
   description |-> "Sequential animations using timeline with offset control",
   category |-> "Timeline",
   tags |-> <<"timeline", "sequence", "sequential", "offset", "chain">>,
   code |-> "const tl = anime.timeline();\ntl.add({\n  targets: '.title',\n  translateY: [-100, 0]\n}).add({\n  targets: '.subtitle',\n  translateX: [-50, 0],\n  offset: '-=600'\n});"],
  [id |-> "stagger-grid", title |-> "Staggered Grid Animation",
   description |-> "Grid-based stagger animation from center outward",
   category |-> "Stagger",
   tags |-> <<"stagger", "grid", "delay", "multiple", "elements">>,
   code |-> "anime({\n  targets: '.grid .item',\n  scale: [0, 1],\n  delay: anime.stagger(100, {\n    grid: [8, 6],\n    from: 'center'\n  })\n});"],
  [id |-> "svg-path", title |-> "SVG Path Animation",
   description |-> "Animate along SVG paths and draw strokes",
   category |-> "SVG",
   tags |-> <<"svg", "path", "stroke", "draw", "morphing", "vector">>,
   code |-> "anime({\n  targets: 'path',\n  strokeDashoffset: [anime.setDashoffset, 0],\n  duration: 1500\n});"],
  [id |-> "morphing", title |-> "CSS Property Morphing",
   description |-> "Animate CSS properties for shape and color morphing",
   category |-> "Morphing",
   tags |-> <<"morph", "css", "properties", "shape", "color", "size">>,
   code |-> "anime({\n  targets: '.box',\n  width: [50, 200],\n  backgroundColor: '#FF6B6B',\n  borderRadius: ['0%', '50%'],\n  duration: 2000\n});"],
  [id |-> "keyframes", title |-> "Keyframes Animation",
   description |-> "Complex animations using keyframes with different timings",
   category |-> "Advanced",
   tags |-> <<"keyframes", "complex", "timing", "advanced", "multiple">>,
   code |-> "anime({\n  targets: '.element',\n  keyframes: [\n    {translateY: -40, duration: 300},\n    {rotateZ: 360, duration: 800},\n    {translateY: 0, duration: 800}\n  ]\n});"],
  [id |-> "text-animation", title |-> "Text Animation",
   description |-> "Animate text letter by letter with stagger effects",
   category |-> "Text",
   tags |-> <<"text", "letters", "typography", "stagger", "writing">>,
   code |-> "anime({\n  targets: '.text .letter',\n  translateY: [\"1.1em\", 0],\n  delay: (el, i) => 50 * i\n});"],
  [id |-> "elastic-bounce", title |-> "Elastic and Bounce Effects",
   description |-> "Using elastic and bounce easing functions for dynamic effects",
   category |-> "Easing",
   tags |-> <<"elastic", "bounce", "easing", "spring", "physics">>,
   code |-> "anime({\n  targets: '.element',\n  translateX: 300,\n  easing: 'easeOutElastic(1, .8)',\n  duration: 1500\n});"],
  [id |-> "loading-spinner", title |-> "Loading Spinner Animation",
   description |-> "Create animated loading spinners and loaders",
   category |-> "UI",
   tags |-> <<"loading", "spinner", "loader", "ui", "rotation">>,
   code |-> "anime({\n  targets: '.spinner',\n  rotate: '1turn',\n  duration: 1000,\n  loop: true,\n  easing: 'linear'\n});"],
  [id |-> "button-hover", title |-> "Button Hover Effects",
   description |-> "Interactive button animations on hover and click",
   category |-> "Interactive",
   tags |-> <<"button", "hover", "click", "interactive", "ui">>,
   code |-> "const button = document.querySelector('.button');\nbutton.addEventListener('mouseenter', () => {\n  anime({\n    targets: button,\n    scale: 1.1,\n    duration: 300\n  });\n});"],
  [id |-> "card-flip", title |-> "Card Flip Animation",
   description |-> "3D card flip effects with perspective transforms",
   category |-> "3D",
   tags |-> <<"card", "flip", "3d", "perspective", "transform">>,
   code |-> "anime({\n  targets: '.card',\n  rotateY: 180,\n  duration: 800,\n  easing: 'easeInOutQuart'\n});"],
  [id |-> "particles", title |-> "Particle System",
   description |-> "Create particle effects with random movements",
   category |-> "Effects",
   tags |-> <<"particles", "random", "effects", "system", "dots">>,
   code |-> "anime({\n  targets: '.particle',\n  translateX: () => anime.random(-500, 500),\n  translateY: () => anime.random(-500, 500),\n  scale: () => anime.random(0.1, 2),\n  duration: 3000\n});"]
>>

Range(seq) == {seq[i] : i \in 1..Len(seq)}
indexOf(seq, v) == CHOOSE i \in 1..Len(seq) : seq[i] = v

\* A value is truthy: supplied and not the empty string.
truthy(v) == v # Missing /\ v # ""

\* ------------------------------------------------------------------ tools
\* getComponentInfo(componentName): the text of the response.  The sections
\* after the type line are fixed per component and left out.
getComponentInfo(componentName) ==
  LET normalizedName == stripParens(toLowerCase(componentName)) IN
  IF normalizedName \in Range(componentKeys)
    THEN "# " \o components[normalizedName].name \o "\n\n**Type:** "
           \o components[normalizedName].type \o "\n\n"
  ELSE IF normalizedName = "constructor"
    THEN "# Object\n\n**Type:** undefined\n\n"
  ELSE IF normalizedName = "__proto__"
    THEN "# undefined\n\n**Type:** undefined\n\n"
  ELSE "Component \"" \o componentName \o "\" not found. Available components: "
         \o join(componentKeys, ", ")

\* getExample(exampleType)
getExample(exampleType) ==
  LET normalizedType == dashes(toLowerCase(exampleType)) IN
  IF normalizedType \in Range(exampleKeys)
    THEN "# " \o exampleTitles[indexOf(exampleKeys, normalizedType)] \o "\n\n"
  ELSE IF hasProperty({}, normalizedType)
    THEN "# undefined\n\n"
  ELSE "Example \"" \o exampleType \o "\" not found. Available examples:\n\n"
         \o join([i \in 1..Len(exampleKeys) |-> "- " \o exampleKeys[i]], "\n")

\* getDocumentation(topic)
getDocumentation(topic) ==
  LET normalizedTopic == dashes(toLowerCase(topic)) IN
  IF normalizedTopic \in Range(docKeys)
    THEN "# " \o docTitles[indexOf(docKeys, normalizedTopic)] \o "\n"
  ELSE IF hasProperty({}, normalizedTopic)
    THEN "undefined"
  ELSE "Documentation for \"" \o topic \o "\" not found. Available topics:\n\n"
         \o join([i \in 1..Len(docKeys) |-> "- " \o docKeys[i]], "\n")

\* formatComponentsList(components, category)
formatComponentsList(comps, category) ==
  "# Anime.js Components"
    \o (IF truthy(category) THEN " - " \o capitalize(category) \o " Category" ELSE "")
    \o "\n\n"
    \o (IF truthy(category)
          THEN "Showing " \o ToString(Len(comps)) \o " component(s) in the \""
                 \o category \o "\" category.\n\n"
          ELSE "Total: " \o ToString(Len(comps)) \o " components available\n\n")
    \o (IF truthy(category)
          THEN join([i \in 1..Len(comps) |-> "### " \o comps[i].name \o "\n"], "")
          ELSE join([c \in 1..Len(categories) |->
                 LET sameCategory(comp) == comp.category = categories[c]
                     group == SelectSeq(comps, sameCategory) IN
                 IF Len(group) = 0 THEN ""
                 ELSE "## " \o capitalize(categories[c]) \o " ("
                        \o ToString(Len(group)) \o ")\n\n"
                        \o join([i \in 1..Len(group) |->
                                   "### " \o group[i].name \o "\n"], "")
                        \o "\n"], ""))
    \o (IF Len(comps) = 0
          THEN "No components found for category \"" \o category
                 \o "\". Available categories: core, timeline, utilities, svg\n"
          ELSE "")

\* handleListAnimeComponents(), lines 94-107: filter, then format.
listComponents(category) ==
  LET inCategory(comp) == toLowerCase(comp.category) = toLowerCase(category) IN
  formatComponentsList(IF truthy(category)
                         THEN SelectSeq(getAllComponents, inCategory)
                         ELSE getAllComponents,
                       category)

\* Variant: the search leaves the code of the examples out.
matchedExamples_noCode(query) ==
  LET queryLower == toLowerCase(query)
      matches(example) ==
        \/ includes(toLowerCase(example.title), queryLower)
        \/ includes(toLowerCase(example.description), queryLower)
        \/ includes(toLowerCase(example.category), queryLower)
        \/ \E t \in 1..Len(example.tags) : includes(example.tags[t], queryLower)
  IN SelectSeq(examples, matches)

\* searchExamples(), lines 200-207: the examples that match the query.
matchedExamples(query) ==
  LET queryLower == toLowerCase(query)
      matches(example) ==
        \/ includes(toLowerCase(example.title), queryLower)
        \/ includes(toLowerCase(example.description), queryLower)
        \/ includes(toLowerCase(example.category), queryLower)
        \/ \E t \in 1..Len(example.tags) : includes(example.tags[t], queryLower)
        \/ includes(toLowerCase(example.code), queryLower)
  IN SelectSeq(examples, matches)

\* searchExamples(query): the text of the response.
searchExamples(query) ==
  LET found == matchedExamples(query) IN
  IF Len(found) = 0
    THEN "No examples found for \"" \o query \o "\". Try searching for terms like:"
  ELSE "# Anime.js Examples Search Results\n\nFound " \o ToString(Len(found))
         \o " example(s) for \"" \o query \o "\":\n\n"
         \o join([i \in 1..Len(found) |->
                    "## " \o ToString(i) \o ". " \o found[i].title \o "\n"], "")

\* toolHandlers, tools/index.ts lines 13-19.
toolHandlers ==
  {"get_anime_component", "list_anime_components", "get_anime_example",
   "search_anime_examples", "get_anime_docs"}

\* The time each tool keeps its result in the cache.
componentTTL == 30 * 60 * 1000
listTTL      == 60 * 60 * 1000
exampleTTL   == 30 * 60 * 1000
searchTTL    == 15 * 60 * 1000
docsTTL      == 60 * 60 * 1000

toolTTL(tool) ==
  CASE tool = "get_anime_component"   -> componentTTL
    [] tool = "list_anime_components" -> listTTL
    [] tool = "get_anime_example"     -> exampleTTL
    [] tool = "search_anime_examples" -> searchTTL
    [] tool = "get_anime_docs"        -> docsTTL

\* Variant: list_anime_components lower-cases the category in its key too.
cacheKey_allLowerCased(tool, arg) ==
  CASE tool = "get_anime_component"   -> "anime-component-" \o toLowerCase(arg)
    [] tool = "list_anime_components" ->
         "anime-components-list-" \o (IF truthy(arg) THEN toLowerCase(arg) ELSE "all")
    [] tool = "get_anime_example"     -> "anime-example-" \o toLowerCase(arg)
    [] tool = "search_anime_examples" -> "anime-examples-search-" \o toLowerCase(arg)
    [] tool = "get_anime_docs"        -> "anime-docs-" \o toLowerCase(arg)

\* The cache key each tool handler builds from its argument.
cacheKey(tool, arg) ==
  CASE tool = "get_anime_component"   -> "anime-component-" \o toLowerCase(arg)
    [] tool = "list_anime_components" ->
         "anime-components-list-" \o (IF truthy(arg) THEN arg ELSE "all")
    [] tool = "get_anime_example"     -> "anime-example-" \o toLowerCase(arg)
    [] tool = "search_anime_examples" -> "anime-examples-search-" \o toLowerCase(arg)
    [] tool = "get_anime_docs"        -> "anime-docs-" \o toLowerCase(arg)

\* What each tool handler computes on a cache miss.
compute(tool, arg) ==
  CASE tool = "get_anime_component"   -> getComponentInfo(arg)
    [] tool = "list_anime_components" -> listComponents(arg)
    [] tool = "get_anime_example"     -> getExample(arg)
    [] tool = "search_anime_examples" -> searchExamples(arg)
    [] tool = "get_anime_docs"        -> getDocumentation(arg)

\* The argument values the specifications send to the tools.
ComponentNames ==
  {"anime", "Anime", "Anime()", "timeline", "Timeline", "TIMELINE", "foo", "Foo",
   "constructor", "__proto__", LongString}
CategoryNames == {"", "utilities", "Utilities", "nosuch"}
ExampleTypes  == {"stagger-grid", "Stagger_Grid", "nosuch", "constructor"}
Queries       ==
  {"stagger", "STAGGER", "Staggered", "translateX", "physics", "zzzznomatch"}
Topics        == {"easing", "Easing", "nosuch", "constructor"}

ToolArguments ==
  ComponentNames \cup CategoryNames \cup ExampleTypes \cup Queries \cup Topics
    \cup {Missing}

\* cacheKey and compute, tabulated over those arguments.
cacheKeys == [tool \in toolHandlers, arg \in ToolArguments |-> cacheKey(tool, arg)]
results   == [tool \in toolHandlers, arg \in ToolArguments |-> compute(tool, arg)]

\* Variant: get() deletes the entry it read whether or not it has expired.
afterGet_deletesLive(key) ==
  IF key \in DOMAIN cache THEN remove(cache, key) ELSE cache

\* The backing map after cache.get(key): an expired entry is gone.
afterGet(key) ==
  IF key \in DOMAIN cache /\ expired(cache[key]) THEN remove(cache, key) ELSE cache

\* The destructured argument is undefined and the handler calls a string
\* method on it.
UndefinedArgument ==
  "TypeError: Cannot read properties of undefined (reading 'toLowerCase')"

\* Variant: a handler that computes and stores on every call.
toolHandler_alwaysComputes(tool, arg) ==
  LET key == cacheKeys[tool, arg] IN
  IF arg = Missing /\ tool # "list_anime_components"
    THEN [outcome |-> "threw", body |-> UndefinedArgument, cache |-> cache,
          hit |-> FALSE]
  ELSE [outcome |-> "returned", body |-> results[tool, arg],
        cache |-> put(afterGet(key), key, CacheItem(results[tool, arg], toolTTL(tool))),
        hit |-> FALSE]

\* A tool handler (handleGetAnimeComponent and its four siblings): cache.get,
\* and on a miss compute and cache.set.  No await: it runs in one stretch.
toolHandler(tool, arg) ==
  LET key == cacheKeys[tool, arg] IN
  IF arg = Missing /\ tool # "list_anime_components"
    THEN [outcome |-> "threw", body |-> UndefinedArgument, cache |-> cache,
          hit |-> FALSE]
  ELSE IF getReturn(key) # absent
    THEN [outcome |-> "returned", body |-> getReturn(key),
          cache |-> afterGet(key), hit |-> TRUE]
  ELSE [outcome |-> "returned", body |-> results[tool, arg],
        cache |-> put(afterGet(key), key, CacheItem(results[tool, arg], toolTTL(tool))),
        hit |-> FALSE]

\* resources.ts: the keys of resourceHandlers.
resourceHandlers == {"resource:get_anime_components"}

\* prompts.ts: the keys of promptHandlers.
promptHandlers == {"animation_tutorial", "component_usage", "performance_optimization"}

componentPrefix == "anime://component/"
examplePrefix   == "anime://example/"

NotAFunction == "TypeError: handler is not a function"

\* What a handler hands back when it does not touch the cache.
Plain(outcome, body) ==
  [outcome |-> outcome, body |-> body, cache |-> cache, ran |-> "method",
   hit |-> FALSE, inner |-> FALSE]

\* The read_resource handler: a static resource, a templated one, or an error.
readResource(uri) ==
  IF uri \in resourceHandlers
    THEN Plain("returned", "text/plain: # Anime.js Components and APIs")
  ELSE IF uri = "constructor"
    THEN Plain("returned", "undefined: undefined")
  ELSE IF uri = "__proto__"
    THEN Plain("threw", NotAFunction)
  ELSE IF startsWith(uri, componentPrefix) /\ Len(uri) > Len(componentPrefix)
    THEN Plain("returned", "text/plain: component "
                 \o SubSeq(uri, Len(componentPrefix) + 1, Len(uri)))
  ELSE IF startsWith(uri, examplePrefix) /\ Len(uri) > Len(examplePrefix)
    THEN Plain("returned", "text/javascript: example "
                 \o SubSeq(uri, Len(examplePrefix) + 1, Len(uri)))
  ELSE Plain("threw", "Error: Resource not found: " \o uri)

\* The get_prompt handler: promptHandlers[name](args).
getPrompt(name, arg) ==
  IF ~hasProperty(promptHandlers, name)
    THEN Plain("threw", "Error: Prompt not found: " \o name)
  ELSE IF name = "constructor"
    THEN Plain("returned", "{}")
  ELSE IF name = "__proto__"
    THEN Plain("threw", NotAFunction)
  ELSE IF arg = Missing
    THEN Plain("threw", "TypeError: Cannot read properties of undefined")
  ELSE Plain("returned",
             CASE name = "animation_tutorial" ->
                    "Tutorial for " \o (IF truthy(arg) THEN arg ELSE "basic")
                      \o " animations with Anime.js"
               [] name = "component_usage" ->
                    "Usage examples for " \o (IF truthy(arg) THEN arg ELSE "anime")
               [] name = "performance_optimization" ->
                    "Performance optimization tips for "
                      \o (IF truthy(arg) THEN arg ELSE "general") \o " use cases")

\* execute(), lines 17-23, for a breaker found in state st.
admitsIn(st) == ~(st = "OPEN" /\ ~shouldAttemptReset)
afterGate(st) == IF st = "OPEN" THEN "HALF_OPEN" ELSE st

\* The call_tool handler, lines 368-387, when the enclosing execute() left
\* the breaker in state st: the tool is looked up and run inside a second
\* execute() on the same breaker.
callTool(name, arg, st) ==
  IF ~hasProperty(toolHandlers, name)
    THEN Plain("threw", "Error: Tool not found: " \o name)
  ELSE IF ~admitsIn(st)
    THEN Plain("threw", BreakerOpenError)
  ELSE IF name = "constructor"
    THEN [Plain("returned", "{}") EXCEPT !.inner = TRUE]
  ELSE IF name = "__proto__"
    THEN [Plain("threw", NotAFunction) EXCEPT !.inner = TRUE]
  ELSE LET t == toolHandler(name, arg) IN
         [outcome |-> t.outcome, body |-> t.body, cache |-> t.cache,
          ran |-> "tool", hit |-> t.hit, inner |-> TRUE]

\* The handler registered for the request's method.
methodHandler(req, st) ==
  CASE req.method = "list_resources" ->
         Plain("returned", "resources: resource:get_anime_components")
    [] req.method = "list_resource_templates" ->
         Plain("returned", "resourceTemplates: anime://component/{componentName}, anime://example/{exampleType}")
    [] req.method = "list_tools" ->
         Plain("returned", "tools: get_anime_component, list_anime_components, get_anime_example, search_anime_examples, get_anime_docs")
    [] req.method = "list_prompts" ->
         Plain("returned", "prompts: animation_tutorial, component_usage, performance_optimization")
    [] req.method = "read_resource" -> readResource(req.arg)
    [] req.method = "get_prompt"    -> getPrompt(req.name, req.arg)
    [] req.method = "call_tool"     -> callTool(req.name, req.arg, st)

\* The value of the field the method's schema looks at.
validatedField(req) ==
  CASE req.method \in {"call_tool", "get_prompt"} -> req.name
    [] req.method = "read_resource"               -> req.arg
    [] OTHER                                      -> Missing

\* handleRequest(), line 173: the params are validated under the name of the
\* request's method.
validated(req) == validateAndSanitizeParams(req.method, validatedField(req))

\* The record of a request that failed before any handler ran.
Refused(req, error) ==
  [pc |-> "done", req |-> req, outcome |-> "threw", body |-> error,
   ran |-> "none", hit |-> FALSE, counted |-> 0, logged |-> 1,
   logMethod |-> req.method]

\* Variant: the breaker is consulted before the params are validated.
handleRequest_gateFirst(r, req) ==
  /\ requests[r].pc \in {"idle", "done"}
  /\ IF ~admits
       THEN /\ requests' = [requests EXCEPT ![r] = Refused(req, BreakerOpenError)]
            /\ UNCHANGED <<state, failures, lastFailureTime, cache>>
     ELSE IF validated(req) # NoError
       THEN /\ requests' = [requests EXCEPT ![r] = Refused(req, validated(req))]
            /\ state' = afterGate(state)
            /\ UNCHANGED <<failures, lastFailureTime, cache>>
     ELSE LET h == methodHandler(req, afterGate(state)) IN
            /\ state' = afterGate(state)
            /\ cache' = h.cache
            /\ requests' = [requests EXCEPT ![r] =
                 [pc |-> IF h.inner THEN "inner" ELSE "outer", req |-> req,
                  outcome |-> h.outcome, body |-> h.body, ran |-> h.ran,
                  hit |-> h.hit, counted |-> 0, logged |-> 0,
                  logMethod |-> Missing]]
            /\ UNCHANGED <<failures, lastFailureTime>>
  /\ UNCHANGED <<now, calls, failedInARow, lastOp>>

\* handleRequest() from the arrival of the request to the first await that
\* suspends it: validation, the gate of execute(), and the method's handler,
\* which for call_tool runs the tool handler inside a second execute().
handleRequest(r, req) ==
  /\ requests[r].pc \in {"idle", "done"}
  /\ IF validated(req) # NoError
       THEN /\ requests' = [requests EXCEPT ![r] = Refused(req, validated(req))]
            /\ UNCHANGED <<state, failures, lastFailureTime, cache>>
     ELSE IF ~admits
       THEN /\ requests' = [requests EXCEPT ![r] = Refused(req, BreakerOpenError)]
            /\ UNCHANGED <<state, failures, lastFailureTime, cache>>
     ELSE LET h == methodHandler(req, afterGate(state)) IN
            /\ state' = afterGate(state)
            /\ cache' = h.cache
            /\ requests' = [requests EXCEPT ![r] =
                 [pc |-> IF h.inner THEN "inner" ELSE "outer", req |-> req,
                  outcome |-> h.outcome, body |-> h.body, ran |-> h.ran,
                  hit |-> h.hit, counted |-> 0, logged |-> 0,
                  logMethod |-> Missing]]
            /\ UNCHANGED <<failures, lastFailureTime>>
  /\ UNCHANGED <<now, calls, failedInARow, lastOp>>

\* The execute() inside the call_tool handler, lines 26-32: the tool's
\* promise settled; a rejection is counted and thrown on to the handler.
toolCallSettles(r) ==
  /\ requests[r].pc = "inner"
  /\ IF requests[r].outcome = "returned"
       THEN onSuccess /\ failedInARow' = 0
       ELSE failures < MaxFailures /\ onFailure /\ failedInARow' = failedInARow + 1
  /\ requests' = [requests EXCEPT ![r].pc = "outer",
                    ![r].counted = IF requests[r].outcome = "threw"
                                     THEN @ + 1 ELSE @]
  /\ UNCHANGED <<now, calls, cache, lastOp>>

\* Variant: the catch of handleRequest() passes the error on unlogged.
requestSettles_unlogged(r) ==
  /\ requests[r].pc = "outer"
  /\ IF requests[r].outcome = "returned"
       THEN onSuccess /\ failedInARow' = 0
       ELSE failures < MaxFailures /\ onFailure /\ failedInARow' = failedInARow + 1
  /\ requests' = [requests EXCEPT ![r].pc = "done",
                    ![r].counted = IF requests[r].outcome = "threw"
                                     THEN @ + 1 ELSE @]
  /\ UNCHANGED <<now, calls, cache, lastOp>>

\* The execute() in handleRequest(), lines 26-32, and the catch of
\* handleRequest(), lines 179-182: the handler's promise settled; a
\* rejection is counted, logged and thrown on to the transport.
requestSettles(r) ==
  /\ requests[r].pc = "outer"
  /\ IF requests[r].outcome = "returned"
       THEN onSuccess /\ failedInARow' = 0
       ELSE failures < MaxFailures /\ onFailure /\ failedInARow' = failedInARow + 1
  /\ requests' = [requests EXCEPT ![r].pc = "done",
                    ![r].counted = IF requests[r].outcome = "threw"
                                     THEN @ + 1 ELSE @,
                    ![r].logged = IF requests[r].outcome = "threw" THEN 1 ELSE 0,
                    ![r].logMethod = IF requests[r].outcome = "threw"
                                       THEN requests[r].req.method ELSE Missing]
  /\ UNCHANGED <<now, calls, cache, lastOp>>

\* Time passes until the instant t.
Elapse(t) ==
  /\ t > now
  /\ now' = t
  /\ UNCHANGED <<state, failures, lastFailureTime, calls, failedInARow, cache,
                 lastOp, requests>>

\* ---- the dispatcher under valid and invalid requests of every method
DispatchInstants == {resetTimeout \div 2, resetTimeout}

DispatchRequests ==
  { Request("call_tool", Missing, Missing),
    Request("read_resource", Missing, Missing),
    Request("call_tool", "get_anime_component", Missing),
    Request("call_tool", "get_anime_component", LongString),
    Request("call_tool", "get_anime_component", "anime"),
    Request("list_tools", Missing, Missing),
    Request("read_resource", Missing, "resource:get_anime_components"),
    Request("get_prompt", "animation_tutorial", "") }

NextDispatch ==
  \/ \E t \in DispatchInstants : Elapse(t)
  \/ \E r \in Slots, req \in DispatchRequests : handleRequest(r, req)
  \/ \E r \in Slots : toolCallSettles(r)
  \/ \E r \in Slots : requestSettles(r)

SpecDispatch == Init /\ [][NextDispatch]_vars

\* ---- the tools, one request at a time.  A tool handler runs in one
\* stretch, so overlapping requests add nothing to what it reads and writes.
ToolSlots == {1}

Minute == 60 * 1000

ToolCall(tool, arg) == Request("call_tool", tool, arg)

\* The request's cache entry fits the number of entries under study.
fits(req) ==
  Cardinality(DOMAIN cache \cup {cacheKeys[req.name, req.arg]}) <= MaxEntries

\* A call of a tool arrives while its entry fits.
toolRequest(r, req) ==
  /\ fits(req)
  /\ handleRequest(r, req)

ToolInstants == {15 * Minute, 30 * Minute, 60 * Minute, 61 * Minute}

ToolRequests ==
  { ToolCall("get_anime_component", "timeline"),
    ToolCall("list_anime_components", Missing),
    ToolCall("list_anime_components", "Utilities"),
    ToolCall("get_anime_example", "stagger-grid"),
    ToolCall("search_anime_examples", "stagger"),
    ToolCall("get_anime_docs", "easing") }

NextTools ==
  \/ \E t \in ToolInstants : Elapse(t)
  \/ \E r \in ToolSlots, req \in ToolRequests : toolRequest(r, req)
  \/ \E r \in ToolSlots : toolCallSettles(r)
  \/ \E r \in ToolSlots : requestSettles(r)

SpecTools == Init /\ [][NextTools]_vars

\* ---- the lookups by identifier, under names in several spellings and
\* names the knowledge base does not have.
LookupInstants == {30 * Minute, 31 * Minute}

LookupRequests ==
  { ToolCall("get_anime_component", "timeline"),
    ToolCall("get_anime_component", "Timeline"),
    ToolCall("get_anime_component", "TIMELINE"),
    ToolCall("get_anime_component", "anime"),
    ToolCall("get_anime_component", "Anime"),
    ToolCall("get_anime_component", "foo"),
    ToolCall("get_anime_component", "Foo"),
    ToolCall("get_anime_component", "constructor"),
    ToolCall("get_anime_example", "nosuch"),
    ToolCall("get_anime_example", "constructor"),
    ToolCall("get_anime_docs", "nosuch"),
    ToolCall("get_anime_docs", "constructor") }

NextLookup ==
  \/ \E t \in LookupInstants : Elapse(t)
  \/ \E r \in ToolSlots, req \in LookupRequests : toolRequest(r, req)
  \/ \E r \in ToolSlots : toolCallSettles(r)
  \/ \E r \in ToolSlots : requestSettles(r)

SpecLookup == Init /\ [][NextLookup]_vars

\* ---- the search, under queries that match by title, by tag, by code, in
\* either letter case, and not at all.
SearchInstants == {15 * Minute, 16 * Minute}

SearchRequests == {ToolCall("search_anime_examples", query) : query \in Queries}

NextSearch ==
  \/ \E t \in SearchInstants : Elapse(t)
  \/ \E r \in ToolSlots, req \in SearchRequests : toolRequest(r, req)
  \/ \E r \in ToolSlots : toolCallSettles(r)
  \/ \E r \in ToolSlots : requestSettles(r)

SpecSearch == Init /\ [][NextSearch]_vars

\* ---- overlapping requests around the expiry of a cache entry and the end
\* of the breaker's cooldown.
OverlapInstants == {resetTimeout, 30 * Minute, 30 * Minute + 1}

OverlapRequests ==
  { ToolCall("get_anime_component", "anime"),
    ToolCall("get_anime_component", Missing),
    Request("list_tools", Missing, Missing) }

NextOverlap ==
  \/ \E t \in OverlapInstants : Elapse(t)
  \/ \E r \in Slots, req \in OverlapRequests : handleRequest(r, req)
  \/ \E r \in Slots : toolCallSettles(r)
  \/ \E r \in Slots : requestSettles(r)

SpecOverlap == Init /\ [][NextOverlap]_vars

\* ---- get_prompt, with the `arguments` field omitted, empty and filled in,
\* under registered and unregistered names.
PromptNames == promptHandlers \cup {"nosuch"}

PromptArguments == {Missing, "", "transform"}

PromptRequests ==
  {Request("get_prompt", name, arg) : name \in PromptNames, arg \in PromptArguments}

NextPrompt ==
  \/ \E t \in DispatchInstants : Elapse(t)
  \/ \E r \in Slots, req \in PromptRequests : handleRequest(r, req)
  \/ \E r \in Slots : requestSettles(r)

SpecPrompt == Init /\ [][NextPrompt]_vars

\* ================================================================= claims
\* Steps of one execute() call, read off the call's record.
Enters(c)   == calls[c].pc = "idle" /\ calls'[c].pc # "idle"
Fails(c)    == calls[c].pc = "running" /\ calls'[c].pc = "done"
                 /\ calls'[c].outcome = "threw"
Succeeds(c) == calls[c].pc = "running" /\ calls'[c].pc = "done"
                 /\ calls'[c].outcome = "returned"
RejectedCall(r) == r.pc = "done" /\ r.outcome = "threw" /\ r.invoked = 0
                     /\ r.error = BreakerOpenError
InCooldown  == lastFailureTime # NULL /\ now - lastFailureTime < resetTimeout

\* C1: with failureThreshold = 5, the failure that makes five operation
\* failures in a row leaves the breaker OPEN; from then on an execute call
\* made before resetTimeout has elapsed since the last failure is rejected
\* with the 'Circuit breaker is OPEN' error, its operation is not invoked,
\* and state, failures and lastFailureTime stay as they were.
C1_FiveFailuresOpenThenReject ==
  [][\A c \in Calls :
       /\ (Fails(c) /\ failedInARow' >= failureThreshold) => state' = "OPEN"
       /\ (Enters(c) /\ failedInARow >= failureThreshold /\ InCooldown) =>
            /\ state = "OPEN"
            /\ RejectedCall(calls'[c])
            /\ UNCHANGED breakerVars]_vars

C1_Witness ==
  \E c \in Calls :
    /\ RejectedCall(calls[c])
    /\ state = "OPEN"
    /\ failedInARow = failureThreshold
    /\ failures = failureThreshold
    /\ InCooldown

\* C2: an execute call that finds the breaker OPEN with
\* now - lastFailureTime >= resetTimeout is admitted: the state is HALF_OPEN
\* when its operation runs and the operation is invoked once; when that
\* trial's operation succeeds the breaker is CLOSED with failures = 0.
C2_TrialAfterCooldown ==
  [][\A c \in Calls :
       /\ (Enters(c) /\ state = "OPEN" /\ lastFailureTime # NULL
             /\ now - lastFailureTime >= resetTimeout) =>
            /\ state' = "HALF_OPEN"
            /\ calls'[c].pc = "running"
            /\ calls'[c].invoked = 1
       /\ (calls[c].trial /\ Succeeds(c)) =>
            /\ state' = "CLOSED"
            /\ failures' = 0
            /\ calls'[c].invoked = 1]_vars

C2_Witness ==
  \E c \in Calls :
    /\ calls[c].trial
    /\ calls[c].pc = "done"
    /\ calls[c].outcome = "returned"
    /\ state = "CLOSED"
    /\ failures = 0
    /\ now - lastFailureTime = resetTimeout

\* C3: in every reachable state, overlapping calls included, state = OPEN
\* implies failures >= failureThreshold.
C3_OpenImpliesThreshold ==
  state = "OPEN" => failures >= failureThreshold

C3_Witness ==
  /\ state = "OPEN"
  /\ failures > failureThreshold
  /\ \E c \in Calls : calls[c].pc = "running" /\ ~calls[c].trial

\* C4: while the state is HALF_OPEN and the trial's operation has not
\* completed, an arriving execute call is not admitted: its operation is not
\* invoked.
C4_HalfOpenSingleFlight ==
  [][\A c \in Calls :
       (/\ Enters(c)
        /\ state = "HALF_OPEN"
        /\ \E t \in Calls \ {c} : calls[t].pc = "running" /\ calls[t].trial)
       => calls'[c].invoked = 0]_vars

\* C5: once the breaker is OPEN it stays OPEN, rejecting every call, until
\* resetTimeout has elapsed since the last failure; the completion of a call
\* that was in flight when it opened does not take it out of OPEN earlier.
C5_OpenUntilCooldown ==
  [][(state = "OPEN" /\ InCooldown) => state' = "OPEN"]_vars

\* C6: in state CLOSED every execute call invokes its operation; a success
\* sets failures to 0 and leaves the state CLOSED; a failure adds one to
\* failures, and the state becomes OPEN with lastFailureTime recorded exactly
\* when the new count is >= failureThreshold, and stays CLOSED otherwise.
C6_ClosedTransitions ==
  [][\A c \in Calls :
       /\ (Enters(c) /\ state = "CLOSED") =>
            /\ calls'[c].pc = "running"
            /\ calls'[c].invoked = 1
            /\ UNCHANGED breakerVars
       /\ (Succeeds(c) /\ state = "CLOSED") =>
            /\ failures' = 0
            /\ state' = "CLOSED"
       /\ (Fails(c) /\ state = "CLOSED") =>
            /\ failures' = failures + 1
            /\ (state' = "OPEN" /\ lastFailureTime' = now)
                 <=> (failures' >= failureThreshold)
            /\ failures' < failureThreshold => state' = "CLOSED"]_vars

C6_Witness ==
  \E c \in Calls :
    /\ calls[c].pc = "done"
    /\ calls[c].outcome = "threw"
    /\ calls[c].invoked = 1
    /\ ~calls[c].trial
    /\ state = "OPEN"
    /\ failures = failureThreshold
    /\ lastFailureTime = now
    /\ now > 0

\* C7: when the trial call admitted from OPEN fails, the state is OPEN again
\* and lastFailureTime is the time of that failure, so that calls are
\* rejected until resetTimeout has elapsed since the trial's failure.
C7_TrialFailureReopens ==
  [][\A c \in Calls :
       (calls[c].trial /\ Fails(c)) =>
         /\ state' = "OPEN"
         /\ lastFailureTime' = now]_vars

\* C8: one execute call invokes the wrapped operation at most once: not at
\* all when rejected, once when admitted.  A rejection surfaces as the
\* breaker's error, an operation failure as the operation's own error,
\* unchanged, after the failure has been counted.
SettledAsGate(r) ==
  /\ r.invoked <= 1
  /\ r.pc = "running" => r.invoked = 1
  /\ r.pc = "done" =>
       \/ RejectedCall(r)
       \/ /\ r.outcome = "threw"
          /\ r.invoked = 1
          /\ r.opError \in OpErrors
          /\ r.error = r.opError
       \/ /\ r.outcome = "returned"
          /\ r.invoked = 1
          /\ r.error = NoError

C8_GateNotRetry ==
  [][\A c \in Calls :
       /\ SettledAsGate(calls'[c])
       /\ Fails(c) => failures' = failures + 1]_vars

C8_Witness ==
  \E c, d \in Calls :
    /\ RejectedCall(calls[c])
    /\ calls[d].pc = "done"
    /\ calls[d].outcome = "threw"
    /\ calls[d].invoked = 1
    /\ calls[d].error \in OpErrors

\* C9: for every key, value and ttl the caller supplies, get(key) right
\* after set(key, value, ttl) returns the value, and get(key) returns absent
\* once the clock has advanced past the supplied ttl since the set.
C9_SetThenGet ==
  (lastOp.op = "set" /\ lastOp.ttl # UNDEFINED) =>
     /\ now = lastOp.at => getReturn(lastOp.key) = lastOp.data
     /\ now > lastOp.at + lastOp.ttl => getReturn(lastOp.key) = absent

\* C10: set on a key that already has an entry replaces the entry whole:
\* the new value is the one get returns, storedAt is the time of this set,
\* the ttl is this set's (the supplied one, or the default when none is
\* supplied), nothing of the old entry is kept, no other key changes and
\* size() does not grow.
C10_SetReplaces ==
  [][\A key \in Keys :
       (lastOp'.op = "set" /\ lastOp'.key = key /\ now' = now
          /\ key \in DOMAIN cache) =>
         /\ size' = size
         /\ getReturn(key)' = lastOp'.data
         /\ cache'[key].data = lastOp'.data
         /\ cache'[key].timestamp = now
         /\ cache'[key].ttl \in {lastOp'.ttl, defaultTTL}
         /\ lastOp'.ttl > 0 => cache'[key].ttl = lastOp'.ttl
         /\ lastOp'.ttl = UNDEFINED => cache'[key].ttl = defaultTTL
         /\ \A other \in DOMAIN cache \ {key} :
              other \in DOMAIN cache' /\ cache'[other] = cache[other]]_vars

C10_Witness ==
  /\ lastOp.op = "set"
  /\ lastOp.prev \in Values \ {lastOp.data}
  /\ lastOp.at > 0
  /\ lastOp.ttl > 0
  /\ getReturn(lastOp.key) = lastOp.data
  /\ cache[lastOp.key].timestamp = lastOp.at
  /\ size = 1

\* A step of the cache: lastOp' describes the operation just made.
CacheStep(op, key) == lastOp'.op = op /\ lastOp'.key = key /\ now' = now
PastExpiry(item) == now > item.timestamp + item.ttl
OthersUntouched(key) ==
  \A other \in DOMAIN cache \ {key} :
    other \in DOMAIN cache' /\ cache'[other] = cache[other]

\* C11: get(key) on an entry whose expiry has passed returns absent and
\* deletes that entry (size() goes down by one) and changes nothing else;
\* a get on a missing key or on a live entry removes nothing.
C11_GetPurgesOnlyExpired ==
  [][\A key \in Keys :
       CacheStep("get", key) =>
         IF key \in DOMAIN cache /\ PastExpiry(cache[key])
           THEN /\ lastOp'.ret = absent
                /\ key \notin DOMAIN cache'
                /\ size' = size - 1
                /\ OthersUntouched(key)
           ELSE /\ cache' = cache
                /\ lastOp'.ret = stored(key)]_vars

C11_Witness ==
  /\ lastOp.op = "get"
  /\ lastOp.prev \in Values
  /\ lastOp.ret = absent
  /\ lastOp.key \notin DOMAIN cache
  /\ size = 1

\* C12: size() is the number of stored entries, expired ones that no get has
\* purged included: the clock alone never changes it, and it changes only by
\* a set of a new key, a delete, a clear, or a get that hits an expired entry.
C12_SizeCountsStored ==
  [][/\ size = Cardinality({k \in Keys : stored(k) # absent})
     /\ now' # now => size' = size
     /\ size' # size =>
          \E key \in Keys :
            \/ CacheStep("set", key) /\ key \notin DOMAIN cache
            \/ CacheStep("delete", key) /\ key \in DOMAIN cache
            \/ lastOp'.op = "clear" /\ now' = now
            \/ CacheStep("get", key) /\ key \in DOMAIN cache
                 /\ PastExpiry(cache[key])]_vars

C12_Witness ==
  /\ size = 2
  /\ \A k \in Keys : k \in DOMAIN cache /\ PastExpiry(cache[k])
  /\ lastOp.op = "set"
  /\ now > lastOp.at

\* C13: delete(key) returns true exactly when an entry was stored under key
\* at the call (an expired, unpurged one included), removes that entry and no
\* other; after delete or clear a get on a removed key returns absent.
C13_DeleteAndClear ==
  [][/\ \A key \in Keys :
          CacheStep("delete", key) =>
            /\ lastOp'.ret = "true" <=> key \in DOMAIN cache
            /\ key \notin DOMAIN cache'
            /\ getReturn(key)' = absent
            /\ OthersUntouched(key)
     /\ (lastOp'.op = "clear" /\ now' = now) =>
          /\ size' = 0
          /\ \A key \in Keys : getReturn(key)' = absent]_vars

C13_Witness ==
  /\ lastOp.op = "delete"
  /\ lastOp.ret = "true"
  /\ lastOp.prev \in Values
  /\ lastOp.key \notin DOMAIN cache
  /\ size = 1

\* C14: set(key, value) without a ttl stores the entry with the default TTL
\* of 5 minutes, and set with a ttl stores it with exactly the ttl supplied.
C14_StoredTTL ==
  [][\A key \in Keys :
       CacheStep("set", key) =>
         cache'[key].ttl = IF lastOp'.ttl = UNDEFINED THEN 5 * 60 * 1000
                           ELSE lastOp'.ttl]_vars

\* A request arrives at slot r and handleRequest() runs up to its first await.
Arrives(r) == requests[r].pc \in {"idle", "done"} /\ requests'[r] # requests[r]

\* C15: a request whose params fail the schema of its method is refused with
\* the validation error before anything else: no handler is invoked, and the
\* cache and the breaker's state, failures and lastFailureTime are unchanged,
\* whatever the breaker's state (OPEN and in cooldown included).
C15_InvalidShortCircuits ==
  [][\A r \in Slots :
       (Arrives(r) /\ validated(requests'[r].req) # NoError) =>
          /\ requests'[r].pc = "done"
          /\ requests'[r].outcome = "threw"
          /\ requests'[r].body = validated(requests'[r].req)
          /\ requests'[r].body # BreakerOpenError
          /\ requests'[r].ran = "none"
          /\ cache' = cache
          /\ UNCHANGED breakerVars]_vars

C15_Witness ==
  \E r \in Slots :
    /\ requests[r].pc = "done"
    /\ requests[r].req.method = "call_tool"
    /\ requests[r].body = "Error: Validation failed for call_tool: name: Required"
    /\ requests[r].ran = "none"
    /\ state = "OPEN"
    /\ InCooldown

\* C16: a call of the tool get_anime_component whose componentName is
\* missing or longer than 1000 characters is refused with the validation
\* error of the tool's schema, and the tool's handler is not invoked.
C16_ToolSchemaChecked ==
  [][\A r \in Slots :
       (/\ Arrives(r)
        /\ requests'[r].req.method = "call_tool"
        /\ requests'[r].req.name = "get_anime_component"
        /\ ~stringSchema(requests'[r].req.arg)) =>
          /\ requests'[r].pc = "done"
          /\ requests'[r].outcome = "threw"
          /\ requests'[r].body =
               validateAndSanitizeParams("get_anime_component", requests'[r].req.arg)
          /\ requests'[r].ran = "none"
          /\ UNCHANGED breakerVars]_vars

\* C17: while the breaker is OPEN and resetTimeout has not elapsed since the
\* last failure, a valid request of any method is refused with the breaker
\* error: no handler is invoked and the cache is unchanged.
C17_OpenRefusesEveryMethod ==
  [][\A r \in Slots :
       (/\ Arrives(r)
        /\ validated(requests'[r].req) = NoError
        /\ state = "OPEN"
        /\ InCooldown) =>
          /\ requests'[r] = Refused(requests'[r].req, BreakerOpenError)
          /\ requests'[r].ran = "none"
          /\ cache' = cache
          /\ UNCHANGED breakerVars]_vars

C17_Witness ==
  \E r1, r2 \in Slots :
    /\ requests[r1] = Refused(Request("call_tool", "get_anime_component", "anime"),
                              BreakerOpenError)
    /\ requests[r2].req.method \in {"list_tools", "read_resource", "get_prompt"}
    /\ requests[r2] = Refused(requests[r2].req, BreakerOpenError)
    /\ state = "OPEN"
    /\ InCooldown
    /\ "anime-component-anime" \notin DOMAIN cache

\* A call of a tool arrives at slot r, is let through and the tool handler
\* returns.
ToolArrives(r) ==
  /\ Arrives(r)
  /\ requests'[r].ran = "tool"
  /\ requests'[r].outcome = "returned"

\* The TTL the claim gives for each tool.
ClaimedTTL(tool) ==
  CASE tool \in {"get_anime_component", "get_anime_example"}   -> 30 * Minute
    [] tool \in {"list_anime_components", "get_anime_docs"}    -> 60 * Minute
    [] tool = "search_anime_examples"                          -> 15 * Minute

\* The keys when every tool lower-cases its input.
loweredKeys ==
  [tool \in toolHandlers, arg \in ToolArguments |-> cacheKey_allLowerCased(tool, arg)]

\* The arriving tool call at slot r follows the cache discipline under the
\* given keys: a stored result no older than the tool's TTL is returned with
\* no computation and no write; otherwise the result is computed, stored
\* under the key with the tool's TTL, and returned.
CacheDiscipline(r, keys) ==
  LET tool == requests'[r].req.name
      arg  == requests'[r].req.arg
      key  == keys[tool, arg]
  IN  IF key \in DOMAIN cache /\ now <= cache[key].timestamp + ClaimedTTL(tool)
        THEN /\ requests'[r].hit
             /\ requests'[r].body = cache[key].data
             /\ cache' = cache
        ELSE /\ ~requests'[r].hit
             /\ requests'[r].body = results[tool, arg]
             /\ cache' = put(cache, key,
                             [data |-> results[tool, arg], timestamp |-> now,
                              ttl |-> ClaimedTTL(tool)])

\* C18: each tool handler consults the cache before computing, under a key
\* made of the tool's prefix and its input, lower-cased by every tool but
\* list_anime_components, which uses the category as typed: on a miss it
\* computes, stores with the tool's TTL (30 min component and example, 60 min
\* list and docs, 15 min search) and returns; a repeat within the TTL returns
\* the stored result with no computation and no write; a repeat after the
\* TTL computes and stores again.
C18_ComputeOncePerTTL ==
  [][\A r \in ToolSlots : ToolArrives(r) => CacheDiscipline(r, cacheKeys)]_vars

C18_Witness ==
  \E r \in ToolSlots :
    /\ requests[r].pc = "done"
    /\ requests[r].req = ToolCall("search_anime_examples", "stagger")
    /\ requests[r].hit
    /\ "anime-examples-search-stagger" \in DOMAIN cache
    /\ now = cache["anime-examples-search-stagger"].timestamp + 15 * Minute
    /\ \E key \in DOMAIN cache : cache[key].timestamp > 0

\* C18 as stated: the key of every tool, list_anime_components included, is
\* made from the lower-cased input.
C18_KeyFromLowerCasedInput ==
  [][\A r \in ToolSlots : ToolArrives(r) => CacheDiscipline(r, loweredKeys)]_vars

LookupTools == {"get_anime_component", "get_anime_example", "get_anime_docs"}

\* The identifier has no match among the identifiers of the tool's
\* knowledge base.
unmatched ==
  [tool \in LookupTools, arg \in ToolArguments \ {Missing} |->
     CASE tool = "get_anime_component" ->
            stripParens(toLowerCase(arg)) \notin Range(componentKeys)
       [] tool = "get_anime_example" ->
            dashes(toLowerCase(arg)) \notin Range(exampleKeys)
       [] tool = "get_anime_docs" ->
            dashes(toLowerCase(arg)) \notin Range(docKeys)]

\* The computed response lists the valid identifiers of the tool.
listsIdentifiers ==
  [tool \in LookupTools, arg \in ToolArguments \ {Missing} |->
     CASE tool = "get_anime_component" ->
            includes(results[tool, arg], join(componentKeys, ", "))
       [] tool = "get_anime_example" ->
            \A i \in 1..Len(exampleKeys) :
               includes(results[tool, arg], "- " \o exampleKeys[i])
       [] tool = "get_anime_docs" ->
            \A i \in 1..Len(docKeys) :
               includes(results[tool, arg], "- " \o docKeys[i])]

IsLookup(q) == q.req.method = "call_tool" /\ q.req.name \in LookupTools

\* C19: a lookup for an identifier with no match in the knowledge base
\* returns a text that lists the valid identifiers and does not throw; the
\* request completes as a success of the breaker (failures 0, state CLOSED)
\* and is not logged as an error.
C19_NotFoundIsAResult ==
  [][\A r \in ToolSlots :
       /\ (/\ Arrives(r)
           /\ requests'[r].ran = "tool"
           /\ IsLookup(requests'[r])
           /\ unmatched[requests'[r].req.name, requests'[r].req.arg]) =>
             /\ requests'[r].outcome = "returned"
             /\ ~requests'[r].hit =>
                  listsIdentifiers[requests'[r].req.name, requests'[r].req.arg]
       /\ (/\ requests[r].pc = "outer"
           /\ requests'[r].pc = "done"
           /\ IsLookup(requests[r])
           /\ unmatched[requests[r].req.name, requests[r].req.arg]) =>
             /\ failures' = 0
             /\ state' = "CLOSED"
             /\ requests'[r].logged = 0]_vars

\* Names of components of the knowledge base, each in several spellings
\* that differ in letter case only.
Spellings == {{"timeline", "Timeline", "TIMELINE"}, {"anime", "Anime"}}

IsComponentLookup(q) ==
  q.req.method = "call_tool" /\ q.req.name = "get_anime_component"

lowered == [arg \in ComponentNames |-> toLowerCase(arg)]

claimedMatches ==
  [query \in Queries |->
     {i \in 1..Len(examples) :
        \/ includes(toLowerCase(examples[i].title), toLowerCase(query))
        \/ includes(toLowerCase(examples[i].description), toLowerCase(query))
        \/ includes(toLowerCase(examples[i].category), toLowerCase(query))
        \/ \E t \in 1..Len(examples[i].tags) :
              includes(toLowerCase(examples[i].tags[t]), toLowerCase(query))
        \/ includes(toLowerCase(examples[i].code), toLowerCase(query))}]

\* The examples a response of the search lists.
SearchBodies == {results["search_anime_examples", query] : query \in Queries}

listedIn ==
  [body \in SearchBodies |->
     {i \in 1..Len(examples) : includes(body, ". " \o examples[i].title \o "\n")}]

noMatches == [body \in SearchBodies |-> startsWith(body, "No examples found for \"")]

IsSearch(q) == q.req.method = "call_tool" /\ q.req.name = "search_anime_examples"

\* C21: search_anime_examples returns exactly the examples in which the
\* query occurs as a case-insensitive substring of the title, description,
\* category, a tag or the code; with no such example it returns the "no
\* examples found" text, does not throw, and the request settles as a
\* success of the breaker.
C21_SearchReturnsMatches ==
  [][\A r \in ToolSlots :
       /\ (Arrives(r) /\ IsSearch(requests'[r])) =>
            /\ requests'[r].outcome = "returned"
            /\ requests'[r].body \in SearchBodies
            /\ listedIn[requests'[r].body] = claimedMatches[requests'[r].req.arg]
            /\ noMatches[requests'[r].body]
                 <=> claimedMatches[requests'[r].req.arg] = {}
       /\ (IsSearch(requests[r]) /\ requests[r].pc # requests'[r].pc
             /\ requests[r].pc \in {"inner", "outer"}) =>
            /\ failures' = 0
            /\ lastFailureTime' = lastFailureTime
            /\ requests'[r].logged = 0]_vars

C21_Witness ==
  \E r \in ToolSlots :
    /\ requests[r].pc = "done"
    /\ requests[r].req = ToolCall("search_anime_examples", "zzzznomatch")
    /\ noMatches[requests[r].body]
    /\ failures = 0
    /\ \E key \in DOMAIN cache :
          /\ cache[key].data \in SearchBodies
          /\ Cardinality(listedIn[cache[key].data]) = 1

\* The error a request is refused with before any handler runs.
RefusalOf(req) ==
  IF validated(req) # NoError THEN validated(req) ELSE BreakerOpenError

\* C22: every request that fails, by a validation error, a rejection by the
\* breaker or an error of its handler, is logged exactly once by
\* handleRequest() under the name of its method, the error handed to the
\* transport is the error that was raised, and the request has no result.
C22_FailuresLoggedOnce ==
  [][\A r \in Slots :
       /\ (Arrives(r) /\ requests'[r].pc = "done") =>
            /\ requests'[r].outcome = "threw"
            /\ requests'[r].body = RefusalOf(requests'[r].req)
            /\ requests'[r].logged = 1
            /\ requests'[r].logMethod = requests'[r].req.method
       /\ (Arrives(r) /\ requests'[r].pc # "done") => requests'[r].logged = 0
       /\ (requests[r].pc = "inner" /\ requests'[r].pc # "inner") =>
            /\ requests'[r].pc = "outer"
            /\ requests'[r].outcome = requests[r].outcome
            /\ requests'[r].body = requests[r].body
            /\ requests'[r].logged = 0
       /\ (requests[r].pc = "outer" /\ requests'[r].pc # "outer") =>
            /\ requests'[r].pc = "done"
            /\ requests'[r].outcome = requests[r].outcome
            /\ requests'[r].body = requests[r].body
            /\ requests[r].outcome = "threw" =>
                 /\ requests'[r].logged = 1
                 /\ requests'[r].logMethod = requests[r].req.method
            /\ requests[r].outcome = "returned" => requests'[r].logged = 0
  ]_vars

\* A handler's error and a rejection by the breaker, each delivered and
\* logged once.
C22_Witness ==
  /\ requests[1].pc = "done" /\ requests[1].outcome = "threw"
  /\ requests[1].body = UndefinedArgument /\ requests[1].ran = "tool"
  /\ requests[1].logged = 1 /\ requests[1].logMethod = "call_tool"
  /\ requests[2].pc = "done" /\ requests[2].outcome = "threw"
  /\ requests[2].body = BreakerOpenError
  /\ requests[2].logged = 1 /\ requests[2].logMethod = "list_tools"

\* The cache keys the tools build from the identifiers of the knowledge base.
identifierKeys ==
  {cacheKey("get_anime_component", componentKeys[i]) : i \in DOMAIN componentKeys}
    \cup {cacheKey("list_anime_components", Missing)}
    \cup {cacheKey("list_anime_components", categories[i]) : i \in DOMAIN categories}
    \cup {cacheKey("get_anime_example", exampleKeys[i]) : i \in DOMAIN exampleKeys}
    \cup {cacheKey("get_anime_docs", docKeys[i]) : i \in DOMAIN docKeys}

\* C23: after valid requests, every key stored in the cache is the key of an
\* identifier that exists in the knowledge base.
C23_KeysAreIdentifiers == DOMAIN cache \subseteq identifierKeys

\* The cache key of the tool call in a slot record.
KeyOf(q) == cacheKeys[q.req.name, q.req.arg]

\* The step is the arrival of a tool call that reads the cache under key.
ReadsKey(r, key) ==
  /\ Arrives(r)
  /\ requests'[r].ran = "tool"
  /\ requests'[r].req.arg # Missing
  /\ KeyOf(requests'[r]) = key

\* C24: with overlapping requests, the expiry test of get() and the delete
\* it leads to, and the state test of execute() and the transition it leads
\* to, happen in one step of one request: an entry is deleted or replaced
\* only by the request that found it expired in the state it is deleted
\* from, and the breaker moves from OPEN to HALF_OPEN only in a step that
\* starts at OPEN with the cooldown over.
C24_ReadAndWriteInOneStep ==
  [][/\ Cardinality({r \in Slots : requests'[r] # requests[r]}) <= 1
     /\ \A key \in DOMAIN cache :
          (key \notin DOMAIN cache' \/ cache'[key] # cache[key]) =>
            /\ expired(cache[key])
            /\ \E r \in Slots : ReadsKey(r, key)
     /\ state' = "HALF_OPEN" /\ state # "HALF_OPEN" =>
          /\ state = "OPEN"
          /\ shouldAttemptReset
          /\ \E r \in Slots : Arrives(r) /\ requests'[r].pc # "done"
          /\ UNCHANGED <<failures, lastFailureTime>>
     /\ (\E r \in Slots : Arrives(r)) /\ state = "OPEN" /\ shouldAttemptReset
          /\ (\A r \in Slots : Arrives(r) => validated(requests'[r].req) = NoError)
          => state' = "HALF_OPEN"
  ]_vars

\* Two requests are pending at once: one took the breaker from OPEN to
\* HALF_OPEN, the other found its cache entry expired and stored it anew.
C24_Witness ==
  /\ requests[1].pc = "inner" /\ requests[1].ran = "tool"
  /\ requests[1].outcome = "returned" /\ ~requests[1].hit
  /\ requests[2].pc = "outer" /\ requests[2].req.method = "list_tools"
  /\ state = "HALF_OPEN"
  /\ now = 30 * Minute + 1
  /\ KeyOf(requests[1]) \in DOMAIN cache
  /\ cache[KeyOf(requests[1])].timestamp = now

\* C25: a request that passed validation and whose handler threw has been
\* counted as one failure by the breaker, whatever its method.
C25_OneFailurePerRequest ==
  \A r \in Slots :
    (requests[r].pc = "done" /\ requests[r].outcome = "threw"
       /\ requests[r].ran # "none") => requests[r].counted = 1

\* C26: the cache is transparent: whatever was asked before, the response to
\* a tool request is the response its handler computes from the knowledge
\* base for that request.
C26_CacheTransparent ==
  [][\A r \in ToolSlots :
       ToolArrives(r) =>
         requests'[r].body = results[requests'[r].req.name, requests'[r].req.arg]
  ]_vars

\* C27: in every reachable state of the breaker, CLOSED goes with fewer
\* failures than the threshold, HALF_OPEN with at least the threshold, and
\* any state but CLOSED with a recorded time of the last failure.
C27_StateMatchesCounters ==
  /\ state = "CLOSED"    => failures < failureThreshold
  /\ state = "HALF_OPEN" => failures >= failureThreshold
  /\ state # "CLOSED"    => lastFailureTime # NULL

\* A trial is running in HALF_OPEN after two overlapping calls failed past
\* the threshold.
C27_Witness ==
  /\ state = "HALF_OPEN"
  /\ failures > failureThreshold
  /\ lastFailureTime # NULL
  /\ \E c \in Calls : calls[c].pc = "running" /\ calls[c].trial

\* C28: the breaker does not stay OPEN forever.  A rejected call leaves
\* lastFailureTime, the state and the counter alone, and a call made in OPEN
\* at least resetTimeout after the last failure is admitted; so, when time
\* advances and calls keep arriving, OPEN is eventually left, and when the
\* admitted operations eventually succeed the breaker eventually is CLOSED.
C28_OpenIsLeft ==
  /\ [][\A c \in Calls :
          /\ (Enters(c) /\ RejectedCall(calls'[c])) =>
               UNCHANGED <<lastFailureTime, state, failures>>
          /\ (Enters(c) /\ state = "OPEN" /\ ~InCooldown) =>
               /\ calls'[c].pc = "running"
               /\ state' = "HALF_OPEN"
     ]_vars
  /\ (state = "OPEN") ~> (state # "OPEN")
  /\ (state # "CLOSED") ~> (state = "CLOSED")

\* A call was rejected while the breaker was OPEN, and a later call, made
\* after the cooldown, was admitted as the trial and closed the breaker.
C28_Witness ==
  /\ state = "CLOSED"
  /\ lastFailureTime # NULL
  /\ now - lastFailureTime >= resetTimeout
  /\ RejectedCall(calls[2])
  /\ calls[1].pc = "done" /\ calls[1].trial /\ calls[1].outcome = "returned"

\* C29: a get that hits a live entry leaves the cache as it is, timestamp
\* and ttl of the entry included: an entry stored at t with ttl d is
\* returned by get at every time up to t + d and is absent at every later
\* time, and only a set of its key gives an entry a new timestamp or ttl.
C29_ReadsDoNotExtendLife ==
  [][/\ \A key \in Keys :
          (CacheStep("get", key) /\ key \in DOMAIN cache) =>
            IF now <= cache[key].timestamp + cache[key].ttl
              THEN /\ lastOp'.ret = cache[key].data
                   /\ cache' = cache
              ELSE /\ lastOp'.ret = absent
                   /\ key \notin DOMAIN cache'
     /\ \A key \in DOMAIN cache \cap DOMAIN cache' :
          (cache'[key].timestamp # cache[key].timestamp
             \/ cache'[key].ttl # cache[key].ttl) =>
            lastOp'.op = "set" /\ lastOp'.key = key
  ]_vars

\* An entry is read at the last instant of its life, after the clock moved.
C29_Witness ==
  /\ lastOp.op = "get" /\ lastOp.at = now
  /\ lastOp.key \in DOMAIN cache
  /\ lastOp.ret = cache[lastOp.key].data
  /\ now = cache[lastOp.key].timestamp + cache[lastOp.key].ttl
  /\ cache[lastOp.key].ttl = 2 * TimeStep

\* C30: a get_prompt request with a registered name and the `arguments`
\* field omitted, once past validation and the breaker, returns the prompt's
\* messages built with the default values and is not counted as a failure;
\* a get_prompt request with an unregistered name fails with 'Prompt not
\* found'.
C30_OmittedArgumentsUseDefaults ==
  \A r \in Slots :
    (requests[r].req.method = "get_prompt" /\ requests[r].ran = "method") =>
      /\ (requests[r].req.name \in promptHandlers /\ requests[r].req.arg = Missing) =>
           /\ requests[r].outcome = "returned"
           /\ requests[r].body = getPrompt(requests[r].req.name, "").body
           /\ requests[r].counted = 0
      /\ requests[r].req.name = "nosuch" =>
           /\ requests[r].outcome = "threw"
           /\ requests[r].body = "Error: Prompt not found: nosuch"
====
